---- MODULE Spec2Model ----
(***************************************************************************)
(* Model of src/app.py, the Airbus price dashboard (a Streamlit script).   *)
(*                                                                         *)
(* One execution of the script is one render cycle:                        *)
(*   load_data -> sidebar widgets -> date filter and 15-row guard ->       *)
(*   feature columns and KPIs -> KPI header -> price chart with regime     *)
(*   shading -> lower charts.                                              *)
(* Streamlit re-executes the script from the top on every widget change;   *)
(* only the st.cache_data entry of load_data survives between cycles.      *)
(*                                                                         *)
(* Encoding.                                                               *)
(*  - Rows are numbered from 1 (row i of the code is row i+1 here).        *)
(*  - A date is its ordinal in a calendar of 31-day months, NaT is 0.      *)
(*  - A close is a positive integer number of price ticks, NaN is 0.       *)
(*  - A rolling mean and a drawdown are exact fractions [num, den]; the    *)
(*    closes used are small integers, for which the float64 quotients of   *)
(*    pandas order exactly as the fractions do.                            *)
(*  - The columns ouv, haut, bas, vol, ret and volR (and the KPIs read     *)
(*    from them) are not modelled: no modelled decision reads them.        *)
(***************************************************************************)
EXTENDS Integers, Sequences, FiniteSets, TLC

VARIABLES
    fs,         \* candidate index -> <<>> (no such file) or <<raw rows>> (a file)
    cache,      \* st.cache_data entry of load_data: <<>> or <<[df, name]>>
    parsed,     \* candidate indexes handed to pd.read_csv so far (process-wide)
    pc,         \* position of the script in the current cycle
    exception,  \* uncaught exception that ended the cycle, or "none"
    error,      \* text shown by st.error in this cycle, or ""
    sidebar,    \* file names shown by st.sidebar.success in this cycle
    df,         \* the table returned by load_data
    start,      \* sidebar "Début"
    end,        \* sidebar "Fin"
    maF,        \* slider "MA courte"
    maS,        \* slider "MA longue"
    data,       \* the filtered table
    col,        \* derived columns of data: [maF, maS, peak, dd, reg]
    kpi,        \* <<>> or <<[last_close, perf, max_dd]>>
    vrects,     \* shaded rectangles added to the price figure
    charts      \* charts and blocks rendered in this cycle, in order

vars == <<fs, cache, parsed, pc, exception, error, sidebar, df, start, end,
          maF, maS, data, col, kpi, vrects, charts>>

----------------------------------------------------------------------------
(* Bounds of the model *)

\* most rows of an arbitrary (possibly dirty, unsorted) source file
MaxFileRows == 2
\* most rows of a well-formed long source file
MaxRows == 42
\* pure-function specification: longest arbitrary close series
MaxLen == 4
\* pure-function specification: largest close of an arbitrary series
MaxClose == 3
\* pure-function specification: largest window
MaxWin == 10
\* pure-function specification: longest strictly increasing series
MaxIncLen == 20
\* pure-function specification: longest regime flag sequence
MaxFlags == 6

----------------------------------------------------------------------------
(* Program constants *)

NaT == 0
NaN == 0
MIN_ROWS == 15
SHORT_MIN == 5
SHORT_MAX == 40
SHORT_DEFAULT == 20
LONG_MIN == 30
LONG_MAX == 120
LONG_DEFAULT == 50

\* for p in [base/"AIRBUS_2026-01-16.txt", base/"AIRBUS_2026-01-16"]
Candidates == <<"AIRBUS_2026-01-16.txt", "AIRBUS_2026-01-16">>

----------------------------------------------------------------------------
(* load_data: source resolution, parsing, cleaning, sorting *)

\* the order in which the for loop of load_data probes the candidates
ProbeOrderReversed == <<2, 1>>
ProbeOrder == <<1, 2>>

\* p.exists()
Exists(k) == fs[k] # <<>>

\* the first candidate of the loop, from position j on, that exists; 0 if none
RECURSIVE FindSource(_)
FindSource(j) ==
    IF j > Len(ProbeOrder) THEN 0
    ELSE IF Exists(ProbeOrder[j]) THEN ProbeOrder[j]
    ELSE FindSource(j + 1)

\* pd.to_datetime(..., dayfirst=True, errors="coerce") of one cell <<a, b>>,
\* the text "a/b/2025": a is the day and b the month; anything else is NaT
ToDatetime(cell) ==
    IF cell[1] \in 1..31 /\ cell[2] \in 1..12
    THEN (cell[2] - 1) * 31 + cell[1] ELSE NaT

\* pd.to_numeric(..., errors="coerce") of one cell <<isNumber, value>>
ToNumeric(cell) == IF cell[1] THEN cell[2] ELSE NaN

\* lines 96-98 applied to every raw row
ParseRows(raw) ==
    [i \in 1..Len(raw) |->
        [date |-> ToDatetime(raw[i].date), clot |-> ToNumeric(raw[i].clot)]]

\* df.dropna(subset=["date","clot"])
DropNa(rows) == SelectSeq(rows, LAMBDA r : r.date # NaT /\ r.clot # NaN)

RemoveAt(rows, i) == SubSeq(rows, 1, i - 1) \o SubSeq(rows, i + 1, Len(rows))

\* .sort_values("date"): every ascending order of the rows; the default sort
\* kind (quicksort) is not stable, so rows with equal dates come out in any order
RECURSIVE SortedOrders(_)
SortedOrders(rows) ==
    IF rows = <<>> THEN {<<>>}
    ELSE LET first == {i \in 1..Len(rows) :
                          \A j \in 1..Len(rows) : rows[i].date <= rows[j].date}
         IN  UNION {{<<rows[i]>> \o t : t \in SortedOrders(RemoveAt(rows, i))} :
                     i \in first}

NoSort(rows) == {rows}
SortValues(rows) == SortedOrders(rows)

\* the values load_data can return for the file of candidate k
LoadResults(k) == SortValues(DropNa(ParseRows(fs[k][1])))

\* st.sidebar.success(f"Donnees : {p.name}")
NoSourceMessage(k) == <<>>
SourceMessage(k) == <<Candidates[k]>>

\* first execution of the body for this process, a candidate exists
load_data_found ==
    /\ pc = "load"
    /\ cache = <<>>
    /\ FindSource(1) # 0
    /\ LET k == FindSource(1) IN
         \E t \in LoadResults(k) :
            /\ parsed' = parsed \cup {k}
            /\ sidebar' = sidebar \o SourceMessage(k)
            /\ df' = t
            /\ cache' = <<[df |-> t, shown |-> SourceMessage(k)]>>
    /\ pc' = "sidebar"
    /\ UNCHANGED <<fs, exception, error, start, end, maF, maS, data, col, kpi,
                   vrects, charts>>

\* raise FileNotFoundError: uncaught, the script run ends
load_data_missing ==
    /\ pc = "load"
    /\ cache = <<>>
    /\ FindSource(1) = 0
    /\ exception' = "FileNotFoundError"
    /\ pc' = "crashed"
    /\ UNCHANGED <<fs, cache, parsed, error, sidebar, df, start, end, maF, maS,
                   data, col, kpi, vrects, charts>>

\* @st.cache_data hit: the stored value is returned and the elements the body
\* emitted are replayed, the body does not run
load_data_cached ==
    /\ pc = "load"
    /\ cache # <<>>
    /\ df' = cache[1].df
    /\ sidebar' = sidebar \o cache[1].shown
    /\ pc' = "sidebar"
    /\ UNCHANGED <<fs, cache, parsed, exception, error, start, end, maF, maS,
                   data, col, kpi, vrects, charts>>

----------------------------------------------------------------------------
(* Sidebar widgets and the date filter *)

Dates(rows) == [i \in 1..Len(rows) |-> rows[i].date]
Closes(rows) == [i \in 1..Len(rows) |-> rows[i].clot]

\* df["date"].min(), df["date"].max(): NaT on an empty table
MinDate(rows) == IF rows = <<>> THEN NaT ELSE rows[1].date
MaxDate(rows) == IF rows = <<>> THEN NaT ELSE rows[Len(rows)].date

\* dates the user can pick in "Début" / "Fin": the default and one other
\* (the day after the first row for the start, the first day for the end)
StartChoices(rows) == {MinDate(rows), MinDate(rows) + 1}
EndChoices(rows) == {MaxDate(rows), MinDate(rows)}
\* values the user can leave the sliders on: both ends and the default
ShortChoices == {SHORT_MIN, SHORT_DEFAULT, SHORT_MAX}
LongChoices == {LONG_MIN, LONG_DEFAULT, LONG_MAX}

\* lines 106-111 on a table with rows
sidebar_widgets ==
    /\ pc = "sidebar"
    /\ df # <<>>
    /\ start' \in StartChoices(df)
    /\ end' \in EndChoices(df)
    /\ maF' \in ShortChoices
    /\ maS' \in LongChoices
    /\ pc' = "filter"
    /\ UNCHANGED <<fs, cache, parsed, exception, error, sidebar, df, data, col,
                   kpi, vrects, charts>>

\* lines 106-108 on an empty table: df["date"].min().date() is NaT.date(); what
\* st.date_input does with that default is not decided by this source: either
\* it raises (the run ends) or the script goes on with NaT bounds
sidebar_widgets_empty ==
    /\ pc = "sidebar"
    /\ df = <<>>
    /\ \/ /\ exception' = "Exception"
          /\ pc' = "crashed"
          /\ UNCHANGED <<start, end, maF, maS>>
       \/ /\ start' = NaT
          /\ end' = NaT
          /\ maF' \in ShortChoices
          /\ maS' \in LongChoices
          /\ pc' = "filter"
          /\ UNCHANGED exception
    /\ UNCHANGED <<fs, cache, parsed, error, sidebar, df, data, col, kpi,
                   vrects, charts>>

\* df[(df["date"].dt.date>=start) & (df["date"].dt.date<=end)]
\* (a comparison with NaT is false)
DateFilter(rows, lo, hi) ==
    SelectSeq(rows, LAMBDA r : lo # NaT /\ hi # NaT /\ r.date >= lo /\ r.date <= hi)

\* if len(data) < 15
GuardOffByOne(rows) == Len(rows) < MIN_ROWS - 1
InsufficientData(rows) == Len(rows) < MIN_ROWS

\* lines 113-116: filter, then st.error + st.stop() on a short window
date_filter ==
    /\ pc = "filter"
    /\ data' = DateFilter(df, start, end)
    /\ IF InsufficientData(data')
       THEN /\ error' = "Pas assez de donnees"
            /\ pc' = "stopped"
       ELSE /\ pc' = "features"
            /\ UNCHANGED error
    /\ UNCHANGED <<fs, cache, parsed, exception, sidebar, df, start, end, maF,
                   maS, col, kpi, vrects, charts>>

----------------------------------------------------------------------------
(* Feature columns and KPIs *)

Undefined == [def |-> FALSE, num |-> 0, den |-> 1]

\* .rolling(w).mean() as pandas computes it: a running sum that adds the row
\* entering the window and removes the one leaving it; the mean is emitted once
\* w observations are in the window (min_periods = w), NaN before
RECURSIVE RollFrom(_, _, _, _, _)
RollFrom(c, w, i, sum, acc) ==
    IF i > Len(c) THEN acc
    ELSE LET s2 == sum + c[i] - (IF i > w THEN c[i - w] ELSE 0)
             nobs == IF i > w THEN w ELSE i
         IN  RollFrom(c, w, i + 1, s2,
                 Append(acc, IF nobs >= w
                             THEN [def |-> TRUE, num |-> s2, den |-> w]
                             ELSE Undefined))

RollingMeanMinPeriods1(c, w) ==
    [i \in 1..Len(c) |->
        LET lo == IF i > w THEN i - w + 1 ELSE 1
            f[j \in (lo - 1)..i] == IF j < lo THEN 0 ELSE f[j - 1] + c[j]
        IN  [def |-> TRUE, num |-> f[i], den |-> i - lo + 1]]
RollingMean(c, w) == RollFrom(c, w, 1, 0, <<>>)

\* .cummax()
RECURSIVE CumFrom(_, _, _, _)
CumFrom(c, i, cur, acc) ==
    IF i > Len(c) THEN acc
    ELSE LET m == IF i = 1 \/ c[i] > cur THEN c[i] ELSE cur
         IN  CumFrom(c, i + 1, m, Append(acc, m))

CumMin(c) ==
    [i \in 1..Len(c) |-> CHOOSE m \in {c[j] : j \in 1..i} :
                              \A j \in 1..i : m <= c[j]]
CumMax(c) == CumFrom(c, 1, 0, <<>>)

\* data["clot"]/data["peak"] - 1, the fraction (clot - peak) / peak
Drawdown(c, peak) ==
    [i \in 1..Len(c) |-> [num |-> c[i] - peak[i], den |-> peak[i]]]

\* a/b < c/d for positive denominators
FracLess(x, y) == x.num * y.den < y.num * x.den

\* data["dd"].min()
RECURSIVE MinFrom(_, _, _)
MinFrom(dd, i, cur) ==
    IF i > Len(dd) THEN cur
    ELSE MinFrom(dd, i + 1, IF FracLess(dd[i], cur) THEN dd[i] ELSE cur)

SeriesMin(dd) == MinFrom(dd, 2, dd[1])

NoColumns == [maF |-> <<>>, maS |-> <<>>, peak |-> <<>>, dd |-> <<>>, reg |-> <<>>]

\* lines 119-131
features ==
    /\ pc = "features"
    /\ LET c == Closes(data)
           peak == CumMax(c)
           dd == Drawdown(c, peak)
       IN  /\ col' = [col EXCEPT !.maF = RollingMean(c, maF),
                                 !.maS = RollingMean(c, maS),
                                 !.peak = peak,
                                 !.dd = dd]
           /\ kpi' = <<[last_close |-> c[Len(c)],
                        perf |-> [num |-> c[Len(c)] - c[1], den |-> c[1]],
                        max_dd |-> SeriesMin(dd)]>>
    /\ pc' = "header"
    /\ UNCHANGED <<fs, cache, parsed, exception, error, sidebar, df, start, end,
                   maF, maS, data, vrects, charts>>

\* lines 134-149: badge and KPI cards
header ==
    /\ pc = "header"
    /\ charts' = charts \o <<"badge", "kpis">>
    /\ pc' = "price"
    /\ UNCHANGED <<fs, cache, parsed, exception, error, sidebar, df, start, end,
                   maF, maS, data, col, kpi, vrects>>

----------------------------------------------------------------------------
(* Price chart: regime column and regime shading *)

\* one cell of (data["maF"] > data["maS"]).astype(int): a comparison with NaN
\* is False
GreaterOrUndefined(a, b) ==
    IF ~a.def \/ ~b.def \/ a.num * b.den > b.num * a.den THEN 1 ELSE 0
Greater(a, b) ==
    IF a.def /\ b.def /\ a.num * b.den > b.num * a.den THEN 1 ELSE 0

RegColumnSwapped(f, s) == [i \in 1..Len(f) |-> Greater(s[i], f[i])]
\* data["reg"] = (data["maF"] > data["maS"]).astype(int)
RegColumn(f, s) == [i \in 1..Len(f) |-> Greater(f[i], s[i])]

\* fig.add_vrect(x0=date[s], x1=date[e], fillcolor=green if reg[e]==1 else red);
\* s and e record the row positions the two dates were read from
VRect(dates, reg, s, e) ==
    [s |-> s, e |-> e, x0 |-> dates[s], x1 |-> dates[e],
     fill |-> IF reg[e] = 1 THEN "green" ELSE "red"]

\* lines 176-187: the for loop from row i on, with the open interval starting
\* at s, then the add_vrect after the loop
RECURSIVE ScanFrom(_, _, _, _, _)
ScanFrom(dates, reg, i, s, acc) ==
    IF i > Len(reg) THEN Append(acc, VRect(dates, reg, s, Len(reg)))
    ELSE IF reg[i] # reg[i - 1]
         THEN ScanFrom(dates, reg, i + 1, i, Append(acc, VRect(dates, reg, s, i - 1)))
         ELSE ScanFrom(dates, reg, i + 1, s, acc)

RECURSIVE ScanFromNoReset(_, _, _, _, _)
ScanFromNoReset(dates, reg, i, s, acc) ==
    IF i > Len(reg) THEN Append(acc, VRect(dates, reg, s, Len(reg)))
    ELSE IF reg[i] # reg[i - 1]
         THEN ScanFromNoReset(dates, reg, i + 1, s,
                              Append(acc, VRect(dates, reg, s, i - 1)))
         ELSE ScanFromNoReset(dates, reg, i + 1, s, acc)

RegimeScanNoReset(dates, reg) == ScanFromNoReset(dates, reg, 2, 1, <<>>)
RegimeScan(dates, reg) == ScanFrom(dates, reg, 2, 1, <<>>)

\* lines 167-189
price_chart ==
    /\ pc = "price"
    /\ LET reg == RegColumn(col.maF, col.maS)
       IN  /\ col' = [col EXCEPT !.reg = reg]
           /\ vrects' = RegimeScan(Dates(data), reg)
    /\ charts' = Append(charts, "price")
    /\ pc' = "lower"
    /\ UNCHANGED <<fs, cache, parsed, exception, error, sidebar, df, start, end,
                   maF, maS, data, kpi>>

\* lines 192-207: volume, drawdown and rolling volatility charts
lower_charts ==
    /\ pc = "lower"
    /\ charts' = charts \o <<"volume", "drawdown", "volatility">>
    /\ pc' = "done"
    /\ UNCHANGED <<fs, cache, parsed, exception, error, sidebar, df, start, end,
                   maF, maS, data, col, kpi, vrects>>

\* a widget change or a reload: Streamlit runs the script again from the top;
\* only the file system and the st.cache_data entry outlive the cycle
rerun ==
    /\ pc \in {"done", "stopped", "crashed"}
    /\ pc' = "load"
    /\ exception' = "none"
    /\ error' = ""
    /\ sidebar' = <<>>
    /\ df' = <<>>
    /\ start' = NaT
    /\ end' = NaT
    /\ maF' = SHORT_DEFAULT
    /\ maS' = LONG_DEFAULT
    /\ data' = <<>>
    /\ col' = NoColumns
    /\ kpi' = <<>>
    /\ vrects' = <<>>
    /\ charts' = <<>>
    /\ UNCHANGED <<fs, cache, parsed>>

----------------------------------------------------------------------------
(* Source files the model starts from *)

\* "02/01/2025", "01/02/2025" and a cell that is no date
RawDateCells == {<<2, 1>>, <<1, 2>>, <<0, 0>>}
\* "10" and a cell that is no number
RawCloseCells == {<<TRUE, 10>>, <<FALSE, 0>>}
RawRows == {[date |-> d, clot |-> c] : d \in RawDateCells, c \in RawCloseCells}

\* every file of at most n rows, in any order, duplicates and bad cells included
RawTables(n) == UNION {[1..k -> RawRows] : k \in 0..n}

\* the k-th day of the year as the file writes it
DateCell(k) == <<((k - 1) % 31) + 1, ((k - 1) \div 31) + 1>>

Shapes == {"rise", "fall", "vee", "saw"}
Shape(kind, n, i) ==
    CASE kind = "rise" -> 100 + i
      [] kind = "fall" -> 100 + n - i
      [] kind = "vee"  -> 100 + (IF 2 * i < n THEN n - 2 * i ELSE 2 * i - n)
      [] OTHER         -> 100 + (IF i % 6 < 3 THEN 5 ELSE 0)

\* a clean file of n consecutive days, newest row first
LongTable(kind, n) ==
    [j \in 1..n |-> [date |-> DateCell(n + 1 - j),
                     clot |-> <<TRUE, Shape(kind, n, n + 1 - j)>>]]

LongLens == {MIN_ROWS, LONG_MIN + 1, MaxRows}
LongTables == {LongTable(kind, n) : kind \in Shapes, n \in LongLens}

\* the lower-priority candidate, when present, holds at most one row
DecoyTables == {<<>>} \cup {<<r>> : r \in RawRows}

Init ==
    /\ fs \in {<<a, b>> :
                 a \in {<<>>} \cup {<<t>> : t \in RawTables(MaxFileRows) \cup LongTables},
                 b \in {<<>>} \cup {<<t>> : t \in DecoyTables}}
    /\ cache = <<>>
    /\ parsed = {}
    /\ pc = "load"
    /\ exception = "none"
    /\ error = ""
    /\ sidebar = <<>>
    /\ df = <<>>
    /\ start = NaT
    /\ end = NaT
    /\ maF = SHORT_DEFAULT
    /\ maS = LONG_DEFAULT
    /\ data = <<>>
    /\ col = NoColumns
    /\ kpi = <<>>
    /\ vrects = <<>>
    /\ charts = <<>>

Next ==
    \/ load_data_found
    \/ load_data_missing
    \/ load_data_cached
    \/ sidebar_widgets
    \/ sidebar_widgets_empty
    \/ date_filter
    \/ features
    \/ header
    \/ price_chart
    \/ lower_charts
    \/ rerun

Spec == Init /\ [][Next]_vars

----------------------------------------------------------------------------
(* The feature block and the regime scan as pure functions of their inputs: *)
(* close series, windows and regime flags drawn from bounded sets           *)

\* the regime scan of lines 176-187 applied to a given flag column
segment ==
    /\ pc = "segment"
    /\ vrects' = RegimeScan(Dates(data), col.reg)
    /\ pc' = "done"
    /\ UNCHANGED <<fs, cache, parsed, exception, error, sidebar, df, start, end,
                   maF, maS, data, col, kpi, charts>>

ArbitraryCloses == UNION {[1..n -> 1..MaxClose] : n \in 1..MaxLen}

\* a strictly increasing series: first close, then steps repeated in turn
IncSeries(first, steps, n) ==
    LET f[i \in 1..n] ==
            IF i = 1 THEN first
            ELSE f[i - 1] + steps[((i - 2) % Len(steps)) + 1]
    IN  [i \in 1..n |-> f[i]]

IncreasingCloses ==
    {IncSeries(first, steps, n) :
        first \in {1, 100}, steps \in [1..2 -> 1..2], n \in MIN_ROWS..MaxIncLen}

FlagColumns == UNION {[1..n -> {0, 1}] : n \in 1..MaxFlags}

\* window lengths tried on a series: the small ones, and the whole series
Windows(c) == 1..(IF Len(c) + 1 < MaxWin THEN Len(c) + 1 ELSE MaxWin) \cup {Len(c)}

PureRows(c) == [i \in 1..Len(c) |-> [date |-> i, clot |-> c[i]]]

InitPure ==
    /\ fs = <<<<>>, <<>>>>
    /\ cache = <<>>
    /\ parsed = {}
    /\ exception = "none"
    /\ error = ""
    /\ sidebar = <<>>
    /\ kpi = <<>>
    /\ vrects = <<>>
    /\ charts = <<>>
    /\ \/ \E c \in ArbitraryCloses \cup IncreasingCloses :
            /\ data = PureRows(c)
            /\ maF \in Windows(c)
            /\ maS \in Windows(c)
            /\ col = NoColumns
            /\ pc = "features"
       \/ \E reg \in FlagColumns :
            /\ data = PureRows([i \in 1..Len(reg) |-> 1])
            /\ maF = SHORT_DEFAULT
            /\ maS = LONG_DEFAULT
            /\ col = [NoColumns EXCEPT !.reg = reg]
            /\ pc = "segment"
    /\ df = data
    /\ start = MinDate(data)
    /\ end = MaxDate(data)

NextPure ==
    \/ features
    \/ header
    \/ price_chart
    \/ segment

SpecPure == InitPure /\ [][NextPure]_vars

----------------------------------------------------------------------------
(* Properties *)

\* the regime scan has run in this cycle
ScanDone == pc \in {"lower", "done"} /\ col.reg # <<>>
\* the feature block has run in this cycle
FeaturesDone == col.peak # <<>>

\* C1: for every regime flag column of length n >= 1 the scan emits rectangles
\* that start at row 1, end at row n, are contiguous and non-overlapping (each
\* starts one row after the previous one ends, start <= end), cover every row
\* exactly once, are uniform in regime (the fill is the regime of every row
\* inside), never repeat the regime of the previous rectangle, and carry the
\* dates of their first and last row; a column of length 1 gives one rectangle.
C1_ScanPartitionsRows ==
    ScanDone =>
        LET n == Len(col.reg)
            v == vrects
        IN  /\ Len(v) >= 1
            /\ v[1].s = 1
            /\ v[Len(v)].e = n
            /\ \A k \in 1..Len(v) :
                  /\ v[k].s <= v[k].e
                  /\ v[k].x0 = data[v[k].s].date
                  /\ v[k].x1 = data[v[k].e].date
                  /\ \A i \in v[k].s..v[k].e :
                        (col.reg[i] = 1) <=> (v[k].fill = "green")
            /\ \A k \in 1..(Len(v) - 1) :
                  /\ v[k + 1].s = v[k].e + 1
                  /\ v[k + 1].fill # v[k].fill
            /\ \A i \in 1..n :
                  Cardinality({k \in 1..Len(v) : v[k].s <= i /\ i <= v[k].e}) = 1
            /\ (n = 1 => Len(v) = 1)

\* C1 witness: a flag column that starts in the up regime and changes regime
\* at least twice has been scanned
C1_Witness ==
    /\ pc = "done"
    /\ ScanDone
    /\ col.reg[1] = 1
    /\ Len(vrects) >= 3

\* the largest close among rows 1..i
MaxUpTo(c, i) == CHOOSE m \in {c[j] : j \in 1..i} : \A j \in 1..i : c[j] <= m

\* C6: on positive closes, peak[i] is the largest close of rows 1..i, the
\* drawdown close/peak - 1 is <= 0 at every row and is 0 wherever the close
\* equals the running peak (row 1 and every new maximum included), and
\* max_dd is the least drawdown of the series, hence <= 0.
C6_DrawdownNeverPositive ==
    FeaturesDone =>
        LET c == Closes(data) IN
        /\ \A i \in 1..Len(c) :
              /\ col.peak[i] = MaxUpTo(c, i)
              /\ col.dd[i].den = col.peak[i] /\ col.dd[i].den > 0
              /\ col.dd[i].num = c[i] - col.peak[i]
              /\ col.dd[i].num <= 0
              /\ (c[i] = col.peak[i] => col.dd[i].num = 0)
              /\ ((i = 1 \/ \A j \in 1..(i - 1) : c[j] < c[i]) => col.dd[i].num = 0)
        /\ kpi[1].max_dd.num <= 0
        /\ \E i \in 1..Len(c) : kpi[1].max_dd = col.dd[i]
        /\ \A i \in 1..Len(c) : ~FracLess(col.dd[i], kpi[1].max_dd)

\* C6 witness: a series that falls below its peak and later sets a new peak
C6_Witness ==
    /\ FeaturesDone
    /\ \E i \in 1..Len(data) : \E j \in (i + 1)..Len(data) :
          /\ col.dd[i].num < 0
          /\ data[j].clot > col.peak[j - 1]
          /\ col.dd[j].num = 0

\* the sum of c[lo..hi]
RECURSIVE SumOf(_, _, _)
SumOf(c, lo, hi) == IF lo > hi THEN 0 ELSE c[hi] + SumOf(c, lo, hi - 1)

\* C7: ma_short is defined at row i exactly when i >= ws and ma_long exactly
\* when i >= wl (rows from 1), each the mean of the last w closes; regime is 1
\* if and only if both are defined and ma_short > ma_long, and is 0 (never
\* undefined, never 1) whenever either moving average is undefined.
C7_RegimeFromMovingAverages ==
    (FeaturesDone /\ col.reg # <<>>) =>
        LET c == Closes(data) IN
        /\ Len(col.maF) = Len(c) /\ Len(col.maS) = Len(c) /\ Len(col.reg) = Len(c)
        /\ \A i \in 1..Len(c) :
              /\ col.maF[i].def <=> i >= maF
              /\ col.maS[i].def <=> i >= maS
              /\ col.maF[i].def =>
                    /\ col.maF[i].num = SumOf(c, i - maF + 1, i)
                    /\ col.maF[i].den = maF
              /\ col.maS[i].def =>
                    /\ col.maS[i].num = SumOf(c, i - maS + 1, i)
                    /\ col.maS[i].den = maS
              /\ col.reg[i] \in {0, 1}
              /\ (col.reg[i] = 1) <=>
                    /\ i >= maF
                    /\ i >= maS
                    /\ SumOf(c, i - maF + 1, i) * maS > SumOf(c, i - maS + 1, i) * maF
              /\ (i < maF \/ i < maS) => col.reg[i] = 0

\* C7 witness: a row where only the short average is defined and a later row
\* in the up regime
C7_Witness ==
    /\ FeaturesDone
    /\ col.reg # <<>>
    /\ \E j \in 1..Len(data) : col.maF[j].def /\ ~col.maS[j].def
    /\ \E i \in 1..Len(data) : col.reg[i] = 1

StrictlyIncreasing(c) == \A i \in 1..(Len(c) - 1) : c[i] < c[i + 1]

\* C9: for a strictly increasing close series of at least 15 rows and windows
\* short < long <= number of rows, the drawdown is 0 at every row, the regime
\* is 0 at every row before row `long` and 1 from row `long` on (rows from 1),
\* and the scan gives exactly two rectangles, down on rows 1..long-1 then up
\* on rows long..n; for closes 100..119 with windows 5 and 10 the tenth row
\* has ma_short = 535/5 = 107 and ma_long = 1045/10 = 104.5.
C9_RisingSeriesTwoIntervals ==
    (ScanDone /\ FeaturesDone /\ Len(data) >= MIN_ROWS
        /\ StrictlyIncreasing(Closes(data)) /\ maF < maS /\ maS <= Len(data)) =>
        LET n == Len(data) IN
        /\ \A i \in 1..n : col.dd[i].num = 0
        /\ \A i \in 1..n : col.reg[i] = (IF i < maS THEN 0 ELSE 1)
        /\ Len(vrects) = 2
        /\ vrects[1].s = 1 /\ vrects[1].e = maS - 1 /\ vrects[1].fill = "red"
        /\ vrects[2].s = maS /\ vrects[2].e = n /\ vrects[2].fill = "green"
        /\ (Closes(data) = [i \in 1..20 |-> 99 + i] /\ maF = 5 /\ maS = 10) =>
              /\ col.maF[10] = [def |-> TRUE, num |-> 535, den |-> 5]
              /\ col.maS[10] = [def |-> TRUE, num |-> 1045, den |-> 10]
              /\ ~col.maS[9].def
              /\ col.reg[9] = 0 /\ col.reg[10] = 1

\* C9 witness: closes 100..119 with windows 5 and 10, scanned
C9_Witness ==
    /\ ScanDone
    /\ FeaturesDone
    /\ Closes(data) = [i \in 1..20 |-> 99 + i]
    /\ maF = 5
    /\ maS = 10
    /\ Len(vrects) = 2

----------------------------------------------------------------------------
(* Properties of the whole render cycle *)

\* the highest-priority candidate that exists, 0 if none
FirstCandidate == IF fs[1] # <<>> THEN 1 ELSE IF fs[2] # <<>> THEN 2 ELSE 0

NoArtifacts == col = NoColumns /\ kpi = <<>> /\ vrects = <<>> /\ charts = <<>>

\* C2: data is the set of rows of df with start <= date <= end (empty when
\* start > end); whenever it has fewer than 15 rows the cycle has stopped at
\* the guard with its error message and holds no derived column, no KPI, no
\* rectangle and no chart; with 15 rows or more the guard has not fired.
C2_ShortWindowHalts ==
    (pc \in {"stopped", "features", "header", "price", "lower", "done"}) =>
        /\ data = SelectSeq(df, LAMBDA r : start <= r.date /\ r.date <= end)
        /\ (start > end => data = <<>>)
        /\ IF Len(data) < 15
           THEN pc = "stopped" /\ error # "" /\ NoArtifacts
           ELSE pc # "stopped" /\ error = ""

\* C2 witness: a window of exactly 14 rows has been stopped at the guard
C2_Witness ==
    /\ pc = "stopped"
    /\ Len(data) = 14
    /\ Len(df) >= 15

\* C3 as stated: the rows returned by load_data have strictly increasing dates
C3_StrictlyIncreasingDates ==
    \A i \in 1..(Len(df) - 1) : df[i].date < df[i + 1].date

\* C3 amended: the rows returned by load_data have non-decreasing dates,
\* whatever the order and content of the file; they are strictly increasing
\* when no two rows kept from the file carry the same date.
C3_NonDecreasingDates ==
    /\ \A i \in 1..(Len(df) - 1) : df[i].date <= df[i + 1].date
    /\ (\A i, j \in 1..Len(df) : i # j => df[i].date # df[j].date) =>
          \A i \in 1..(Len(df) - 1) : df[i].date < df[i + 1].date
    /\ \A i \in 1..Len(df) : df[i].date # NaT /\ df[i].clot # NaN

\* C3 witness: a file whose rows were out of date order has been loaded
C3_Witness ==
    /\ pc = "sidebar"
    /\ Len(df) = 2
    /\ df[1].date < df[2].date
    /\ ToDatetime(fs[FirstCandidate][1][1].date) > df[1].date

\* C4 as stated: when the source exists and no row survives cleaning, the
\* load ends in DataMalformed: no empty table is returned and no later step runs
C4_EmptyTableIsDataMalformed ==
    (pc # "load" /\ FirstCandidate # 0
        /\ DropNa(ParseRows(fs[FirstCandidate][1])) = <<>>) =>
        /\ exception = "DataMalformed"
        /\ pc = "crashed"

\* C5: the candidates are probed in their fixed order and exactly the first
\* one that exists is parsed, shown and returned (the second is never read
\* when the first exists); when none exists the load raises FileNotFoundError
\* and the cycle ends with nothing read, shown or computed.
C5_FirstExistingCandidateWins ==
    /\ parsed \subseteq {FirstCandidate} \ {0}
    /\ (pc # "load" /\ FirstCandidate # 0) =>
          /\ parsed = {FirstCandidate}
          /\ sidebar = <<Candidates[FirstCandidate]>>
          /\ df \in SortedOrders(DropNa(ParseRows(fs[FirstCandidate][1])))
          /\ exception # "FileNotFoundError"
    /\ (pc # "load" /\ FirstCandidate = 0) =>
          /\ pc = "crashed"
          /\ exception = "FileNotFoundError"
          /\ df = <<>> /\ data = <<>> /\ sidebar = <<>>
          /\ NoArtifacts

\* C5 witness: both candidates exist and the first one has been loaded
C5_Witness ==
    /\ fs[1] # <<>>
    /\ fs[2] # <<>>
    /\ fs[1] # fs[2]
    /\ pc = "sidebar"
    /\ parsed = {1}

C10_LeadingDownInterval ==
    ScanDone =>
        LET n == Len(data)
            w == IF maF > maS THEN maF ELSE maS
        IN  /\ n >= 15
            /\ maF \in 5..40 /\ maS \in 30..120
            /\ \A i \in 1..n : i < w => col.reg[i] = 0
            /\ vrects[1].s = 1
            /\ vrects[1].fill = "red"
            /\ vrects[1].e >= (IF n < maS - 1 THEN n ELSE maS - 1)
            /\ n < maS =>
                  /\ Len(vrects) = 1
                  /\ vrects[1].e = n
                  /\ vrects[1].x0 = data[1].date /\ vrects[1].x1 = data[n].date

\* C10 witness: a window longer than the long slider whose regime changes
\* at least twice after the leading down interval
C10_Witness ==
    /\ pc = "done"
    /\ ScanDone
    /\ Len(data) > maS
    /\ Len(vrects) >= 3

====
